---- MODULE Spec2Model ----
(***************************************************************************)
(* Model of the roster engine (src/roster_engine.py) and of the absence    *)
(* manager of the dashboard (src/app.py).                                  *)
(*                                                                         *)
(*   SpecClassify : load_and_analyze_data, the per-row Shift DNA analysis  *)
(*   Spec         : generate_roster, from the week grouping to the result  *)
(*   SpecReplace  : the "Find Replacement" handler                         *)
(*                                                                         *)
(* Shift values are the integers of the engine: 0 = WO, 1 = Day, 2 = Night.*)
(* Day indices are 0-based as in the engine (days_indices).                *)
(***************************************************************************)
EXTENDS Integers, Sequences, FiniteSets, TLC

VARIABLES
    \* ---- load_and_analyze_data, one row of the history table
    row,            \* the date cells of the row, as read from the file
    col,            \* position of the loop over date_cols
    day_count,
    night_count,
    dna,            \* the DNA stored for the row ("" until it is determined)
    runs,           \* how many times the row has been analysed
    \* ---- generate_roster
    first_weekday,  \* dates[0].weekday(), Mon = 0 .. Sun = 6
    num_days,       \* calendar.monthrange(year, month)[1]
    employee_dna,   \* sequence of DNA, in the order of employees
    pc,
    d,              \* loop index of the week grouping
    weeks,
    current_week,
    status,         \* what solver.Solve returned
    e,              \* employee whose row is being built
    w,              \* week whose values are being read
    roster,         \* solver values roster[(e, d)] of the days of week w
    t_work,         \* shifts counted so far in the row of employee e
    data,           \* the rows built so far
    result,         \* what generate_roster returned
    \* ---- Find Replacement
    roster_df,      \* rows of the roster, on the selected date
    selected_emp_name,
    absent_shift,
    candidates,     \* the ranked candidates (row indices of roster_df)
    best_fit,       \* row index of the best fit, 0 when none is shown
    top,            \* the alternatives shown
    message         \* "success" / "error" / ""

vars == <<row, col, day_count, night_count, dna, runs,
          first_weekday, num_days, employee_dna, pc, d, weeks, current_week,
          status, e, w, roster, t_work, data, result,
          roster_df, selected_emp_name, absent_shift, candidates, best_fit,
          top, message>>

classifyVars == <<row, col, day_count, night_count, dna, runs>>
rosterVars == <<first_weekday, num_days, employee_dna, d, weeks,
                current_week, status, e, w, roster, t_work, data, result>>
replaceVars == <<roster_df, selected_emp_name, absent_shift, candidates,
                 best_fit, top, message>>

(***************************************************************************)
(* Bounds of the model                                                     *)
(***************************************************************************)
MaxCols == 4        \* date columns of a history row
MaxEmployees == 2   \* employees given to generate_roster
MaxRows == 3        \* rows of the roster given to the absence manager

(***************************************************************************)
(* Constants of the program                                                *)
(***************************************************************************)
WO == 0
Day == 1
Night == 2
Saturday == 5
FullWeek == 7
MinMonthDays == 28
MaxMonthDays == 31
TopN == 5

Shifts == {WO, Day, Night}
DNAs == {"Fixed_Day", "Fixed_Night", "Rotating"}

RECURSIVE SumSeq(_)
SumSeq(s) == IF s = <<>> THEN 0 ELSE Head(s) + SumSeq(Tail(s))

MaxOf(S) == CHOOSE x \in S : \A y \in S : y <= x
MinOf(S) == CHOOSE x \in S : \A y \in S : x <= y

(***************************************************************************)
(* load_and_analyze_data                                                   *)
(***************************************************************************)
\* The cell values a history file holds, as written in the file.
RawCells == {"Day", "DAY", " day ", "Night", "night", "WO", "nan", "Days"}

\* str(row[col]).strip().upper()
StripUpper(raw) ==
    CASE raw \in {"Day", "DAY", " day "} -> "DAY"
      [] raw \in {"Night", "night"} -> "NIGHT"
      [] raw = "WO" -> "WO"
      [] raw = "nan" -> "NAN"
      [] raw = "Days" -> "DAYS"

\* Determine DNA
DetermineDNADayFirst(dc, nc) ==
    IF dc > 0 THEN "Fixed_Day"
    ELSE IF nc > 0 THEN "Fixed_Night"
    ELSE "Rotating"

DetermineDNA(dc, nc) ==
    IF dc > 0 /\ nc = 0 THEN "Fixed_Day"
    ELSE IF nc > 0 /\ dc = 0 THEN "Fixed_Night"
    ELSE "Rotating"

InitClassify ==
    /\ row \in UNION {[1..n -> RawCells] : n \in 0..MaxCols}
    /\ col = 1
    /\ day_count = 0
    /\ night_count = 0
    /\ dna = ""
    /\ runs = 0
    /\ pc = "count"
    /\ first_weekday = 0 /\ num_days = 0 /\ employee_dna = <<>>
    /\ d = 0 /\ weeks = <<>> /\ current_week = <<>> /\ status = ""
    /\ e = 0 /\ w = 0 /\ roster = <<>> /\ t_work = 0 /\ data = <<>>
    /\ result = ""
    /\ roster_df = <<>> /\ selected_emp_name = "" /\ absent_shift = ""
    /\ candidates = <<>> /\ best_fit = 0 /\ top = <<>> /\ message = ""

\* one pass of the loop over date_cols
CountCell ==
    /\ pc = "count"
    /\ col <= Len(row)
    /\ LET val == StripUpper(row[col]) IN
         /\ day_count' = IF val = "DAY" THEN day_count + 1 ELSE day_count
         /\ night_count' = IF val = "DAY" THEN night_count
                           ELSE IF val = "NIGHT" THEN night_count + 1
                           ELSE night_count
    /\ col' = col + 1
    /\ UNCHANGED <<row, dna, runs, pc>>
    /\ UNCHANGED rosterVars
    /\ UNCHANGED replaceVars

\* the loop is over: the DNA of the row is determined and stored
StoreDNA ==
    /\ pc = "count"
    /\ col > Len(row)
    /\ dna' = DetermineDNA(day_count, night_count)
    /\ runs' = runs + 1
    /\ pc' = "stored"
    /\ UNCHANGED <<row, col, day_count, night_count>>
    /\ UNCHANGED rosterVars
    /\ UNCHANGED replaceVars

\* the same file is loaded again: the row is analysed from the start
Reanalyze ==
    /\ pc = "stored"
    /\ runs < 2
    /\ col' = 1
    /\ day_count' = 0
    /\ night_count' = 0
    /\ pc' = "count"
    /\ UNCHANGED <<row, dna, runs>>
    /\ UNCHANGED rosterVars
    /\ UNCHANGED replaceVars

NextClassify == CountCell \/ StoreDNA \/ Reanalyze

SpecClassify == InitClassify /\ [][NextClassify]_vars

(***************************************************************************)
(* generate_roster: the constraint model                                   *)
(***************************************************************************)
BoolVar == {0, 1}

\* DNA Constraints, on the value x of one roster[(e, d)]
DNAConstraintSwapped(dnaOf, x) ==
    /\ dnaOf = "Fixed_Day" => x # Day
    /\ dnaOf = "Fixed_Night" => x # Night

DNAConstraint(dnaOf, x) ==
    /\ dnaOf = "Fixed_Day" => x # Night
    /\ dnaOf = "Fixed_Night" => x # Day

\* model.Add(sum(is_wo) == 2) for a week of 7 days, <= 2 otherwise
WeeklyOffSumLoose(len, total) == total <= 2

WeeklyOffSumStrict(len, total) == total = 2

WeeklyOffSum(len, total) ==
    IF len = FullWeek THEN total = 2 ELSE total <= 2

\* Weekly Offs: the is_wo indicators of one employee in one week, linked to
\* the values p of the week, and their sum
WeeklyOffConstraint(p) ==
    \E is_wo \in [1..Len(p) -> BoolVar] :
        /\ \A i \in 1..Len(p) :
              /\ is_wo[i] = 1 => p[i] = WO
              /\ is_wo[i] = 0 => p[i] # WO
        /\ WeeklyOffSum(Len(p), SumSeq(is_wo))

\* model.Add(has_day + has_night <= 1)
CannotHaveBothLoose(has_day, has_night) == has_day + has_night <= 2

CannotHaveBoth(has_day, has_night) == has_day + has_night <= 1

\* Shift Lock: the is_day / is_night indicators of one employee in one
\* week, has_day / has_night as their maxima, and not both
ShiftLockConstraint(p) ==
    \E is_day \in [1..Len(p) -> BoolVar] :
        /\ \A i \in 1..Len(p) :
              /\ is_day[i] = 1 => p[i] = Day
              /\ is_day[i] = 0 => p[i] # Day
        /\ \E is_night \in [1..Len(p) -> BoolVar] :
              /\ \A i \in 1..Len(p) :
                    /\ is_night[i] = 1 => p[i] = Night
                    /\ is_night[i] = 0 => p[i] # Night
              /\ \E has_day \in BoolVar, has_night \in BoolVar :
                    /\ has_day = MaxOf({is_day[i] : i \in 1..Len(p)})
                    /\ has_night = MaxOf({is_night[i] : i \in 1..Len(p)})
                    /\ CannotHaveBoth(has_day, has_night)

\* the hard constraints on the variables of one employee in one week
HardConstraints(dnaOf, p) ==
    /\ \A i \in 1..Len(p) : DNAConstraint(dnaOf, p[i])
    /\ WeeklyOffConstraint(p)
    /\ ShiftLockConstraint(p)

\* the assignments of a week of len days that the constraints admit, for
\* every DNA and every length of a week
WeekPatterns ==
    [dnaOf \in DNAs |->
        [len \in 1..FullWeek |->
            {p \in [1..len -> Shifts] : HardConstraints(dnaOf, p)}]]

\* total_days + total_nights over the days of p
WorkOf(p) ==
    Cardinality({i \in 1..Len(p) : p[i] = Day})
        + Cardinality({i \in 1..Len(p) : p[i] = Night})

\* dates[i].weekday()
WeekdayOffByOne(fw, i) == (fw + i + 1) % 7

Weekday(fw, i) == (fw + i) % 7

\* model.Minimize(max_work - min_work)
ObjectiveNegated(total_work) ==
    MinOf({total_work[i] : i \in 1..Len(total_work)})
        - MaxOf({total_work[i] : i \in 1..Len(total_work)})

Objective(total_work) ==
    MaxOf({total_work[i] : i \in 1..Len(total_work)})
        - MinOf({total_work[i] : i \in 1..Len(total_work)})

\* the numbers of shifts that the assignments of a week of len days have
WeekWork ==
    [dnaOf \in DNAs |->
        [len \in 1..FullWeek |-> {WorkOf(p) : p \in WeekPatterns[dnaOf][len]}]]

\* the totals of shifts an employee can have over the weeks wks
RECURSIVE WorkTotals(_, _)
WorkTotals(dnaOf, wks) ==
    IF wks = <<>> THEN {0}
    ELSE LET rest == WorkTotals(dnaOf, Tail(wks)) IN
         {n + t : n \in WeekWork[dnaOf][Len(Head(wks))], t \in rest}

\* the total_work vectors of all the assignments the constraints admit
FeasibleTotals(dnas, wks) ==
    LET tot == [i \in 1..Len(dnas) |-> WorkTotals(dnas[i], wks)]
        all == UNION {tot[i] : i \in 1..Len(dnas)}
    IN {tw \in [1..Len(dnas) -> all] : \A i \in 1..Len(dnas) : tw[i] \in tot[i]}

\* OPTIMAL: no assignment has a lower objective
IsOptimal(total_work, dnas, wks) ==
    LET value == Objective(total_work) IN
    \A tw \in FeasibleTotals(dnas, wks) : value <= Objective(tw)

\* the constraints admit an assignment of every variable
HasSolution(dnas, wks) ==
    \A i \in 1..Len(dnas), k \in 1..Len(wks) :
        WeekPatterns[dnas[i]][Len(wks[k])] # {}

(***************************************************************************)
(* generate_roster: the run                                                *)
(***************************************************************************)
Init ==
    /\ first_weekday \in 0..6
    /\ num_days \in MinMonthDays..MaxMonthDays
    /\ employee_dna \in UNION {[1..n -> DNAs] : n \in 1..MaxEmployees}
    /\ pc = "weeks"
    /\ d = 0
    /\ weeks = <<>>
    /\ current_week = <<>>
    /\ status = ""
    /\ e = 0 /\ w = 0 /\ roster = <<>> /\ t_work = 0 /\ data = <<>>
    /\ result = ""
    /\ row = <<>> /\ col = 0 /\ day_count = 0 /\ night_count = 0
    /\ dna = "" /\ runs = 0
    /\ roster_df = <<>> /\ selected_emp_name = "" /\ absent_shift = ""
    /\ candidates = <<>> /\ best_fit = 0 /\ top = <<>> /\ message = ""

\* Group indices by week: one pass of the loop over days_indices
GroupDay ==
    /\ pc = "weeks"
    /\ d < num_days
    /\ IF Weekday(first_weekday, d) = Saturday
       THEN /\ weeks' = Append(weeks, Append(current_week, d))
            /\ current_week' = <<>>
       ELSE /\ weeks' = weeks
            /\ current_week' = Append(current_week, d)
    /\ d' = d + 1
    /\ UNCHANGED <<first_weekday, num_days, employee_dna, pc, status, e, w,
                   roster, t_work, data, result>>
    /\ UNCHANGED classifyVars
    /\ UNCHANGED replaceVars

\* after the loop: the days left over are the last week
CloseWeeks ==
    /\ pc = "weeks"
    /\ d = num_days
    /\ weeks' = IF current_week # <<>> THEN Append(weeks, current_week)
                ELSE weeks
    /\ current_week' = <<>>
    /\ pc' = "solve"
    /\ UNCHANGED <<first_weekday, num_days, employee_dna, d, status, e, w,
                   roster, t_work, data, result>>
    /\ UNCHANGED classifyVars
    /\ UNCHANGED replaceVars

\* the statuses solver.Solve can return without an assignment: UNKNOWN when
\* it stops at max_time_in_seconds before it found one, INFEASIBLE when the
\* constraints admit none
NoSolutionStatuses(dnas, wks) ==
    {"UNKNOWN"} \cup (IF HasSolution(dnas, wks) THEN {} ELSE {"INFEASIBLE"})

\* status is neither OPTIMAL nor FEASIBLE: no roster, only the message
SolveFails ==
    /\ pc = "solve"
    /\ status' \in NoSolutionStatuses(employee_dna, weeks)
    /\ result' = "none"
    /\ pc' = "done"
    /\ UNCHANGED <<first_weekday, num_days, employee_dna, d, weeks,
                   current_week, e, w, roster, t_work, data>>
    /\ UNCHANGED classifyVars
    /\ UNCHANGED replaceVars

\* solver.Solve stops with an assignment: the rows are built from it
SolveFound ==
    /\ pc = "solve"
    /\ HasSolution(employee_dna, weeks)
    /\ pc' = "rows"
    /\ e' = 1
    /\ w' = 0
    /\ t_work' = 0
    /\ UNCHANGED <<first_weekday, num_days, employee_dna, d, weeks,
                   current_week, status, roster, data, result>>
    /\ UNCHANGED classifyVars
    /\ UNCHANGED replaceVars

\* the values of employee e on the days of the next week are read from the
\* solver: any values that the constraints on these variables admit
ReadWeek ==
    /\ pc = "rows"
    /\ w < Len(weeks)
    /\ roster = <<>>
    /\ LET week_days == weeks[w + 1] IN
       \E p \in WeekPatterns[employee_dna[e]][Len(week_days)] :
          /\ roster' = [day \in {week_days[i] : i \in 1..Len(week_days)} |->
                          p[CHOOSE i \in 1..Len(week_days) : week_days[i] = day]]
          /\ t_work' = t_work + WorkOf(p)
    /\ w' = w + 1
    /\ UNCHANGED <<first_weekday, num_days, employee_dna, pc, d, weeks,
                   current_week, status, e, data, result>>
    /\ UNCHANGED classifyVars
    /\ UNCHANGED replaceVars

\* the values of the week are in the row: the loop over the days goes on
\* with the days of the next week
NextWeek ==
    /\ pc = "rows"
    /\ w < Len(weeks)
    /\ roster # <<>>
    /\ roster' = <<>>
    /\ UNCHANGED <<first_weekday, num_days, employee_dna, pc, d, weeks,
                   current_week, status, e, w, t_work, data, result>>
    /\ UNCHANGED classifyVars
    /\ UNCHANGED replaceVars

\* the row of employee e is complete: the counts are added and the row is
\* appended; after the last employee the rows make the roster
AppendRow ==
    /\ pc = "rows"
    /\ w = Len(weeks)
    /\ data' = Append(data, [id |-> e, dna |-> employee_dna[e],
                             cells |-> SumSeq([k \in 1..w |-> Len(weeks[k])]),
                             total |-> t_work])
    /\ roster' = <<>>
    /\ t_work' = 0
    /\ w' = 0
    /\ IF e < Len(employee_dna)
       THEN e' = e + 1 /\ pc' = pc
       ELSE e' = e /\ pc' = "built"
    /\ UNCHANGED <<first_weekday, num_days, employee_dna, d, weeks,
                   current_week, status, result>>
    /\ UNCHANGED classifyVars
    /\ UNCHANGED replaceVars

TotalWork == [i \in 1..Len(data) |-> data[i].total]

\* status is OPTIMAL or FEASIBLE: the roster is returned. The solver calls
\* an assignment OPTIMAL only when it minimises the objective; it may stop
\* at the time limit with any assignment as FEASIBLE.
ReturnRoster ==
    /\ pc = "built"
    /\ status' \in {"FEASIBLE"} \cup
                   (IF IsOptimal(TotalWork, employee_dna, weeks)
                    THEN {"OPTIMAL"} ELSE {})
    /\ result' = "roster"
    /\ pc' = "done"
    /\ UNCHANGED <<first_weekday, num_days, employee_dna, d, weeks,
                   current_week, e, w, roster, t_work, data>>
    /\ UNCHANGED classifyVars
    /\ UNCHANGED replaceVars

Next ==
    \/ GroupDay
    \/ CloseWeeks
    \/ SolveFails
    \/ SolveFound
    \/ ReadWeek
    \/ NextWeek
    \/ AppendRow
    \/ ReturnRoster

Spec == Init /\ [][Next]_vars

(***************************************************************************)
(* The absence manager: the Find Replacement handler                       *)
(***************************************************************************)
\* shift_map of generate_roster: the cells of the roster
ShiftName(x) == CASE x = WO -> "WO" [] x = Day -> "Day" [] x = Night -> "Night"

Names == {"A", "B"}

\* the rows generate_roster can build, seen on the selected date: the cell
\* respects the DNA of the row; a month of 29 days has 20 or 21 shifts
RosterRows ==
    {r \in [name : Names, dna : DNAs,
            shift : {ShiftName(x) : x \in Shifts}, total : {20, 21}] :
        \E x \in Shifts : r.shift = ShiftName(x) /\ DNAConstraint(r.dna, x)}

\* Employee ID is the key of employee_dna, so no two rows share it; the rows
\* come in the order of the file, with the IDs rising or falling
WithIds(rows, rising) ==
    [i \in 1..Len(rows) |->
        [id |-> IF rising THEN i ELSE Len(rows) + 1 - i,
         name |-> rows[i].name, dna |-> rows[i].dna,
         shift |-> rows[i].shift, total |-> rows[i].total]]

\* working_on_date['Name'].unique()
WorkingNames(df) ==
    {df[i].name : i \in {j \in 1..Len(df) : df[j].shift \in {"Day", "Night"}}}

\* roster_df[roster_df['Name'] == selected_emp_name]
RowsNamed(df, nm) == {i \in 1..Len(df) : df[i].name = nm}

\* 1. Must be on WO this day
OnWO(df) == {i \in 1..Len(df) : df[i].shift = "WO"}

\* 2. DNA Match
DNAMatchSwapped(shift, cand_dna) ==
    /\ shift = "Night" => cand_dna # "Fixed_Night"
    /\ shift = "Day" => cand_dna # "Fixed_Day"

DNAMatch(shift, cand_dna) ==
    /\ shift = "Night" => cand_dna # "Fixed_Day"
    /\ shift = "Day" => cand_dna # "Fixed_Night"

\* 3. Sort by Total Shifts, lowest first. The sort is pandas' default
\* (quicksort), which is not stable: rows with equal Total Shifts come in
\* any order.
SortByTotalShifts(df, rows) ==
    {s \in [1..Cardinality(rows) -> rows] :
        /\ \A i, j \in DOMAIN s : i # j => s[i] # s[j]
        /\ \A i, j \in DOMAIN s : i < j => df[s[i]].total <= df[s[j]].total}

\* candidates.empty
IsEmptyOffByOne(cands) == Len(cands) <= 1

IsEmpty(cands) == Len(cands) = 0

\* candidates[...].head(5)
HeadRows(cands) ==
    SubSeq(cands, 1, IF Len(cands) < TopN THEN Len(cands) ELSE TopN)

InitReplace ==
    /\ \E n \in 1..MaxRows, rising \in BOOLEAN :
          \E rows \in [1..n -> RosterRows] : roster_df = WithIds(rows, rising)
    /\ selected_emp_name = ""
    /\ absent_shift = ""
    /\ candidates = <<>>
    /\ best_fit = 0
    /\ top = <<>>
    /\ message = ""
    /\ pc = "sidebar"
    /\ row = <<>> /\ col = 0 /\ day_count = 0 /\ night_count = 0
    /\ dna = "" /\ runs = 0
    /\ first_weekday = 0 /\ num_days = 0 /\ employee_dna = <<>>
    /\ d = 0 /\ weeks = <<>> /\ current_week = <<>> /\ status = ""
    /\ e = 0 /\ w = 0 /\ roster = <<>> /\ t_work = 0 /\ data = <<>>
    /\ result = ""

\* "Find Replacement" is pressed with a name of the select box chosen
FindReplacement ==
    /\ pc = "sidebar"
    /\ WorkingNames(roster_df) # {}
    /\ \E nm \in WorkingNames(roster_df) :
        LET absent_emp_row == MinOf(RowsNamed(roster_df, nm))
            shift == roster_df[absent_emp_row].shift
            matching == {i \in OnWO(roster_df) :
                            DNAMatch(shift, roster_df[i].dna)}
        IN /\ selected_emp_name' = nm
           /\ absent_shift' = shift
           /\ \E sorted \in SortByTotalShifts(roster_df, matching) :
                 /\ candidates' = sorted
                 /\ IF ~IsEmpty(sorted)
                    THEN /\ best_fit' = sorted[1]
                         /\ top' = HeadRows(sorted)
                         /\ message' = "success"
                    ELSE /\ best_fit' = 0
                         /\ top' = <<>>
                         /\ message' = "error"
    /\ pc' = "shown"
    /\ UNCHANGED roster_df
    /\ UNCHANGED classifyVars
    /\ UNCHANGED rosterVars

\* nobody works on the selected date: the select box is empty, the name is
\* None, no row has it and .iloc[0] raises IndexError
FindReplacementNoName ==
    /\ pc = "sidebar"
    /\ WorkingNames(roster_df) = {}
    /\ selected_emp_name' = "None"
    /\ message' = "IndexError"
    /\ pc' = "shown"
    /\ UNCHANGED <<roster_df, absent_shift, candidates, best_fit, top>>
    /\ UNCHANGED classifyVars
    /\ UNCHANGED rosterVars

\* the script runs again: another date or name can be chosen
Rerun ==
    /\ pc = "shown"
    /\ selected_emp_name' = ""
    /\ absent_shift' = ""
    /\ candidates' = <<>>
    /\ best_fit' = 0
    /\ top' = <<>>
    /\ message' = ""
    /\ pc' = "sidebar"
    /\ UNCHANGED roster_df
    /\ UNCHANGED classifyVars
    /\ UNCHANGED rosterVars

NextReplace == FindReplacement \/ FindReplacementNoName \/ Rerun

SpecReplace == InitReplace /\ [][NextReplace]_vars

(***************************************************************************)
(* Properties of generate_roster (Spec)                                    *)
(***************************************************************************)
\* the week that has been read for employee e is in roster
WeekRead == pc = "rows" /\ roster # <<>>

Rests == Cardinality({day \in DOMAIN roster : roster[day] = WO})

\* the days of the month in the k-th Sunday-to-Saturday week of the
\* calendar, k = 0 for the week of the 1st: the 1st is SundayOffset days
\* after a Sunday, so the week runs over the 7 day indices from
\* 7 * k - SundayOffset on, as far as they are days of the month
SundayOffset == (first_weekday + 1) % 7

CalendarWeek(k) ==
    {day \in (7 * k - SundayOffset)..(7 * k - SundayOffset + 6) :
        day >= 0 /\ day < num_days}

\* max_e totalWork(e) - min_e totalWork(e)
Spread(tw) ==
    MaxOf({tw[i] : i \in 1..Len(tw)}) - MinOf({tw[i] : i \in 1..Len(tw)})

AllRotating == \A i \in 1..Len(employee_dna) : employee_dna[i] = "Rotating"

PartialWeeks == Cardinality({k \in 1..Len(weeks) : Len(weeks[k]) < FullWeek})

\* C1: in a returned roster a Fixed_Day employee is never on Night and a
\* Fixed_Night employee never on Day, on any day of the month.
C1_AffinityRespected ==
    pc = "rows" =>
        \A day \in DOMAIN roster :
            /\ roster[day] \in Shifts
            /\ employee_dna[e] = "Fixed_Day" => roster[day] # Night
            /\ employee_dna[e] = "Fixed_Night" => roster[day] # Day

C1_Witness ==
    /\ WeekRead
    /\ employee_dna[e] = "Fixed_Day"
    /\ \E day \in DOMAIN roster : roster[day] = Day

\* C2: in a returned roster every employee has exactly 2 WO days in every
\* Sunday-to-Saturday week of 7 days and at most 2 in a shorter week.
C2_WeeklyRestQuota ==
    WeekRead =>
        /\ DOMAIN roster = CalendarWeek(w - 1)
        /\ Cardinality(DOMAIN roster) = FullWeek => Rests = 2
        /\ Cardinality(DOMAIN roster) < FullWeek => Rests <= 2

C2_Witness ==
    /\ WeekRead
    /\ Cardinality(DOMAIN roster) = FullWeek
    /\ Rests = 2
    /\ w > 1

\* C3: in a returned roster no employee has both a Day and a Night within
\* one Sunday-to-Saturday week, full or partial.
C3_ShiftLock ==
    WeekRead =>
        /\ DOMAIN roster = CalendarWeek(w - 1)
        /\ ~ /\ \E d1 \in DOMAIN roster : roster[d1] = Day
             /\ \E d2 \in DOMAIN roster : roster[d2] = Night

C3_Witness ==
    /\ WeekRead
    /\ employee_dna[e] = "Rotating"
    /\ w > 1
    /\ Cardinality({day \in DOMAIN roster : roster[day] = Night}) = 5

\* C4: for every month and every mix of DNA the hard constraints admit an
\* assignment: the solver never answers INFEASIBLE, whatever the lengths of
\* the partial weeks, and fewer than 2 WO in a partial week are accepted.
C4_AlwaysSatisfiable ==
    /\ status # "INFEASIBLE"
    /\ pc = "solve" => (HasSolution(employee_dna, weeks) /\ ENABLED SolveFound)

C4_Witness ==
    /\ WeekRead
    /\ e = Len(employee_dna)
    /\ w = Len(weeks)
    /\ Cardinality(DOMAIN roster) = 3
    /\ Rests = 0

\* the naive round-robin baseline: employee i takes WO, Day, Night in turn,
\* starting i places on; its spread of total worked days
RoundRobinSpread(n, days) ==
    Spread([i \in 1..n |->
        Cardinality({day \in 0..(days - 1) : ((i - 1 + day) % 3) # WO})])

\* C10, as claimed: the spread of every roster returned for Rotating
\* employees, OPTIMAL or FEASIBLE, is at most that of the round-robin
\* baseline.
C10_SpreadWithinBaseline ==
    (pc = "done" /\ result = "roster" /\ AllRotating) =>
        Spread(TotalWork) <= RoundRobinSpread(Len(employee_dna), num_days)

\* C10, amended: a roster returned as OPTIMAL for Rotating employees has
\* spread 0, which no baseline undercuts; a roster returned as FEASIBLE has
\* a spread of at most 2 for each partial week of the month.
C10_SpreadWhenOptimal ==
    (pc = "done" /\ result = "roster" /\ AllRotating) =>
        /\ status = "OPTIMAL" =>
              /\ Spread(TotalWork) = 0
              /\ Spread(TotalWork)
                    <= RoundRobinSpread(Len(employee_dna), num_days)
        /\ status = "FEASIBLE" => Spread(TotalWork) <= 2 * PartialWeeks

C10_Witness ==
    /\ pc = "done"
    /\ result = "roster"
    /\ status = "OPTIMAL"
    /\ AllRotating
    /\ Len(employee_dna) >= 2
    /\ PartialWeeks = 2

\* C11, as claimed: a run ends with the roster and no error, the roster
\* holding one cell for each day of the month for each employee given and
\* no other row, or with no roster and the message; the message is returned
\* only when the hard constraints admit no assignment, never because the
\* search stopped.
C11_FailureOnlyWhenUnsatisfiable ==
    pc = "done" =>
        \/ /\ result = "roster"
           /\ status \in {"OPTIMAL", "FEASIBLE"}
           /\ Len(data) = Len(employee_dna)
           /\ \A i \in 1..Len(data) :
                 /\ data[i].id = i
                 /\ data[i].dna = employee_dna[i]
                 /\ data[i].cells = num_days
        \/ /\ result = "none"
           /\ data = <<>>
           /\ ~HasSolution(employee_dna, weeks)

\* the days of a week of the grouping
DaysOf(week_days) == {week_days[i] : i \in 1..Len(week_days)}

\* the weeks of the grouping, one after the other
RECURSIVE Flatten(_)
Flatten(wks) == IF wks = <<>> THEN <<>> ELSE Head(wks) \o Flatten(Tail(wks))

\* Python's weekday() of day index day: Sat = 5, Sun = 6
IsSaturday(day) == ((first_weekday + day) % 7) = 5
IsSunday(day) == ((first_weekday + day) % 7) = 6

\* C12: when the grouping is complete (it is not changed afterwards), the
\* week grouping cuts the days of the month, in calendar order,
\* into consecutive non-empty runs that do not overlap; every run starts on
\* a Sunday or on day 1 and ends on a Saturday or on the last day; none has
\* more than 7 days and only the first and the last may have fewer.
C12_WeekPartition ==
    pc = "solve" =>
        /\ Flatten(weeks) = [i \in 1..num_days |-> i - 1]
        /\ \A k \in 1..Len(weeks) :
              LET wk == weeks[k] IN
              /\ Len(wk) >= 1
              /\ Len(wk) <= FullWeek
              /\ IsSunday(wk[1]) \/ wk[1] = 0
              /\ IsSaturday(wk[Len(wk)]) \/ wk[Len(wk)] = num_days - 1
              /\ \A i \in 1..(Len(wk) - 1) : ~IsSaturday(wk[i])
              /\ Len(wk) < FullWeek => k \in {1, Len(weeks)}
              /\ DaysOf(wk) = CalendarWeek(k - 1)

C12_Witness ==
    /\ pc = "solve"
    /\ Len(weeks) = 6
    /\ Len(weeks[1]) = 1
    /\ Len(weeks[6]) = 2

(***************************************************************************)
(* Properties of load_and_analyze_data (SpecClassify)                      *)
(***************************************************************************)
\* C5: the DNA is Fixed_Day iff day_count > 0 and night_count = 0,
\* Fixed_Night iff night_count > 0 and day_count = 0, Rotating otherwise;
\* analysing the same row again gives the DNA already stored.
C5_Classifier ==
    (pc = "stored" \/ (pc = "count" /\ runs > 0 /\ col > Len(row))) =>
        /\ dna \in DNAs
        /\ dna = "Fixed_Day" <=> (day_count > 0 /\ night_count = 0)
        /\ dna = "Fixed_Night" <=> (night_count > 0 /\ day_count = 0)
        /\ dna = "Rotating" <=> \/ (day_count = 0 /\ night_count = 0)
                                \/ (day_count > 0 /\ night_count > 0)

C5_Witness ==
    /\ pc = "stored"
    /\ runs = 2
    /\ dna = "Rotating"
    /\ day_count > 0
    /\ night_count > 0

(***************************************************************************)
(* Properties of the Find Replacement handler (SpecReplace)                *)
(***************************************************************************)
Range(s) == {s[i] : i \in 1..Len(s)}

Shown == ({best_fit} \ {0}) \cup Range(top)

\* the row can take the shift: not Fixed_Day for a Night, not Fixed_Night
\* for a Day
CanTake(r, shift) ==
    /\ ~(r.dna = "Fixed_Day" /\ shift = "Night")
    /\ ~(r.dna = "Fixed_Night" /\ shift = "Day")

Compatible ==
    {i \in 1..Len(roster_df) :
        roster_df[i].shift = "WO" /\ CanTake(roster_df[i], absent_shift)}

\* C6: when the absent employee is on Day or Night, the best fit and every
\* alternative shown rest on the date and can take the absent shift; no
\* resting Rotating employee is left out of the ranking.
C6_CompatibleCandidates ==
    (pc = "shown" /\ absent_shift \in {"Day", "Night"}) =>
        /\ \A i \in Shown \cup Range(candidates) : i \in Compatible
        /\ \A i \in 1..Len(roster_df) :
              (roster_df[i].shift = "WO" /\ roster_df[i].dna = "Rotating")
                  => i \in Range(candidates)
        /\ best_fit # 0 => best_fit = top[1]

C6_Witness ==
    /\ pc = "shown"
    /\ Len(roster_df) = 3
    /\ \E a, b, c \in 1..3 :
          /\ roster_df[a].dna = "Fixed_Day" /\ roster_df[a].shift = "Day"
          /\ roster_df[a].name = selected_emp_name
          /\ roster_df[b].dna = "Fixed_Night" /\ roster_df[b].shift = "WO"
          /\ roster_df[b].total = 21
          /\ roster_df[c].dna = "Rotating" /\ roster_df[c].shift = "WO"
          /\ roster_df[c].total = 20
          /\ roster_df[b].name # roster_df[a].name
          /\ roster_df[c].name # roster_df[a].name
          /\ absent_shift = "Day"
          /\ best_fit = c
          /\ b \notin Range(candidates)

\* C7, as claimed: a replacement asked for an employee who is on WO on the
\* date is answered with a usage error and no candidate.
C7_RestIsUsageError ==
    (pc = "shown" /\ absent_shift = "WO") =>
        /\ message \notin {"success"}
        /\ best_fit = 0
        /\ top = <<>>

\* C8: for an absent Day or Night shift, "No suitable replacement found!"
\* is reported, and no best fit, exactly when no resting employee can take
\* the shift; otherwise a best fit is reported and no error.
C8_ErrorIffNoCandidate ==
    (pc = "shown" /\ absent_shift \in {"Day", "Night"}) =>
        /\ Compatible = {} => (message = "error" /\ best_fit = 0 /\ top = <<>>)
        /\ Compatible # {} => (message = "success" /\ best_fit \in Compatible)

C8_Witness ==
    /\ pc = "shown"
    /\ absent_shift = "Night"
    /\ \E i \in 1..Len(roster_df) : roster_df[i].shift = "WO"
    /\ Compatible = {}
    /\ message = "error"

\* C9, as claimed: the candidates are ranked by Total Shifts, lowest first,
\* and candidates with equal Total Shifts by Employee ID, so that the
\* ranking does not depend on the order of the rows.
C9_TieBreakById ==
    (pc = "shown" /\ absent_shift \in {"Day", "Night"}) =>
        \A i, j \in 1..Len(candidates) :
            i < j =>
                \/ roster_df[candidates[i]].total < roster_df[candidates[j]].total
                \/ /\ roster_df[candidates[i]].total = roster_df[candidates[j]].total
                   /\ roster_df[candidates[i]].id < roster_df[candidates[j]].id

====
